---- MODULE Spec2Model ----
(***************************************************************************)
(* Battery Cell Management Dashboard (battery management system/app.py).   *)
(*                                                                         *)
(* The script is re-executed top to bottom on every user interaction; one  *)
(* action of this model is one such render pass.  The state is what the    *)
(* hosting runtime keeps between passes (st.session_state and the widget   *)
(* values) together with what the last pass rendered.                      *)
(*                                                                         *)
(* Units: voltages in tenths of a volt, currents and capacities in         *)
(* hundredths (A, Ah), temperatures in tenths of a degree, raw random      *)
(* samples in thousandths of a degree.                                     *)
(***************************************************************************)
EXTENDS Integers, Sequences, FiniteSets, TLC

\* ------------------------------------------------------------------ bounds
\* The cell-count selector offers range(1, 17); the model explores 1..MaxCells.
MaxCells == 2

\* Values typed into a current input (hundredths of an ampere, within the
\* control's [0.0, 100.0]): 0.0 and 1.03.
CurrentInputs == {0, 103}

\* Outcomes of random.uniform(25, 40), in thousandths of a degree.
TempSamples == {25000, 39951}

\* ------------------------------------------------------- fixed parameters
Options == <<"LFP", "NMC">>

MinCurrent == 0

MaxCurrent == 10000

\* ------------------------------------------------------------ pure helpers
\* str.lower() / str.upper() on the two chemistry names.
Lower(s) == CASE s = "LFP" -> "lfp" [] s = "NMC" -> "nmc" [] OTHER -> s

Upper(s) == CASE s = "lfp" -> "LFP" [] s = "nmc" -> "NMC" [] OTHER -> s

\* Variant of CellKey that leaves the index out of the key.
CellKeyNoIndex(idx, cell_type) == "cell_" \o cell_type

\* f"cell_{idx}_{cell_type}"
CellKey(idx, cell_type) == "cell_" \o ToString(idx) \o "_" \o cell_type

\* round(x, 2) of a product given in thousandths, result in hundredths.  The
\* products are voltage (32 or 36 tenths) times a current in hundredths, hence
\* even, so the thousandths digit is never 5 and no tie arises.
Round2(x) == (x + 5) \div 10

\* round(x, 1) of a sample in thousandths of a degree, result in tenths.
Round1(x) == (x + 50) \div 100

\* voltage / min_voltage / max_voltage by chemistry (tenths of a volt).
Voltage(cell_type) == IF cell_type = "lfp" THEN 32 ELSE 36

MinVoltage(cell_type) == IF cell_type = "lfp" THEN 28 ELSE 32

MaxVoltage(cell_type) == IF cell_type = "lfp" THEN 36 ELSE 40

\* Variant of Capacity that truncates instead of rounding.
CapacityTruncated(voltage, current) == (voltage * current) \div 10

\* capacity = round(voltage * current, 2)
Capacity(voltage, current) == Round2(voltage * current)

\* ------------------------------------------------- ordered dict of records
Keys(d) == [i \in 1..Len(d) |-> d[i].key]

HasKey(d, k) == \E i \in 1..Len(d) : d[i].key = k

\* d[k] = v : overwrite in place when the key exists, append otherwise.
DictSet(d, k, v) ==
    IF HasKey(d, k)
    THEN [i \in 1..Len(d) |-> IF d[i].key = k THEN [key |-> k, val |-> v] ELSE d[i]]
    ELSE Append(d, [key |-> k, val |-> v])

\* The record built for one cell by the Generate handler.
NewCell(cell_type, sample) ==
    [voltage     |-> Voltage(cell_type),
     current     |-> 0,
     temp        |-> Round1(sample),
     capacity    |-> Capacity(Voltage(cell_type), 0),
     min_voltage |-> MinVoltage(cell_type),
     max_voltage |-> MaxVoltage(cell_type),
     type        |-> Upper(cell_type)]

RECURSIVE GenerateFrom(_, _, _, _)
GenerateFrom(types, samples, idx, acc) ==
    IF idx > Len(types) THEN acc
    ELSE GenerateFrom(types, samples, idx + 1,
                      DictSet(acc, CellKey(idx, types[idx]),
                              NewCell(types[idx], samples[idx])))

\* Variant of GenerateCells that enumerates from the second configured cell.
GenerateCellsSkipFirst(types, samples) == GenerateFrom(types, samples, 2, <<>>)

\* for idx, cell_type in enumerate(cell_types, start=1): cells_data[...] = {...}
GenerateCells(types, samples) == GenerateFrom(types, samples, 1, <<>>)

\* ------------------------------------------------- IEEE-754 double model
\* A double near the decimal d/10 is held as [d, e], meaning the exact value
\* (d * 2^51 + e) / (10 * 2^51).  2^51 itself is never evaluated: only its
\* residue modulo 10 is needed to find the representation error e.
P51Mod10 == 8

\* The literal d/10 with 2.0 <= d/10 <= 4.0 (spacing 2^-51; 4.0 is exact)
\* converts to the nearest multiple of 2^-51.
FloatErr(d) ==
    LET r == (P51Mod10 * d) % 10
    IN  IF r < 5 THEN 0 - r ELSE 10 - r

FloatOf(d) == [d |-> d, e |-> FloatErr(d)]

\* x - y on doubles; exact when y/2 <= x <= 2y, which holds for the voltages.
FSub(x, y) == [d |-> x.d - y.d, e |-> x.e - y.e]

Sign(n) == IF n > 0 THEN 1 ELSE IF n < 0 THEN 0 - 1 ELSE 0

\* Sign of fl(a / b) - 0.5 for b > 0.  When a/b differs from 1/2 in the
\* decimal part the errors (below 2^-45) cannot change the order.  Otherwise
\* the quotient rounds above 0.5 iff it exceeds 0.5 + 2^-54 and below 0.5 iff
\* it is under 0.5 - 2^-55 (ties go to 0.5, whose significand is even).
CmpRatioHalf(a, b) ==
    LET primary == 2 * a.d - b.d
        excess  == 2 * a.e - b.e
    IN  IF primary # 0 THEN Sign(primary)
        ELSE IF 4 * excess > b.d \/ (4 * excess = b.d /\ b.e < 0) THEN 1
        ELSE IF 8 * excess < 0 - b.d \/ (8 * excess = 0 - b.d /\ b.e > 0) THEN 0 - 1
        ELSE 0

\* fl(a / b) > 0.8.  Decided by the decimal parts; the chemistries' ratios
\* are nowhere near 0.8, the error terms only break an exact decimal tie.
RatioGt08(a, b) ==
    LET primary == 10 * a.d - 8 * b.d
    IN  IF primary # 0 THEN primary > 0 ELSE 10 * a.e - 8 * b.e > 0

\* Sign of voltage_ratio - 0.5 for a record (line 117).
VoltageRatioCmpHalf(cell_data) ==
    CmpRatioHalf(FSub(FloatOf(cell_data.voltage), FloatOf(cell_data.min_voltage)),
                 FSub(FloatOf(cell_data.max_voltage), FloatOf(cell_data.min_voltage)))

\* Variant of Status whose second test is >= 0.5.
StatusInclusive(cell_data) ==
    LET num == FSub(FloatOf(cell_data.voltage), FloatOf(cell_data.min_voltage))
        den == FSub(FloatOf(cell_data.max_voltage), FloatOf(cell_data.min_voltage))
    IN  IF RatioGt08(num, den) THEN "Good"
        ELSE IF CmpRatioHalf(num, den) >= 0 THEN "OK"
        ELSE "Low"

\* if voltage_ratio > 0.8: Good  elif voltage_ratio > 0.5: OK  else: Low
Status(cell_data) ==
    LET num == FSub(FloatOf(cell_data.voltage), FloatOf(cell_data.min_voltage))
        den == FSub(FloatOf(cell_data.max_voltage), FloatOf(cell_data.min_voltage))
    IN  IF RatioGt08(num, den) THEN "Good"
        ELSE IF CmpRatioHalf(num, den) > 0 THEN "OK"
        ELSE "Low"

\* ------------------------------------------------------------------- views
\* cell_key.replace('_', ' ').title(), kept as a tagged key.
Title(cell_key) == [title_of |-> cell_key]

\* One status card of tab 1.
Card(cell_key, cell_data) ==
    [cell     |-> Title(cell_key),
     status   |-> Status(cell_data),
     voltage  |-> cell_data.voltage,
     current  |-> cell_data.current,
     temp     |-> cell_data.temp,
     capacity |-> cell_data.capacity]

Overview(d) == [i \in 1..Len(d) |-> Card(d[i].key, d[i].val)]

\* One row of the tab 3 frame: Cell, Voltage, Current, Temperature, Capacity, Type.
AnalyticsRow(cell_key, data) ==
    [Cell        |-> Title(cell_key),
     Voltage     |-> data.voltage,
     Current     |-> data.current,
     Temperature |-> data.temp,
     Capacity    |-> data.capacity,
     Type        |-> data.type]

Analytics(d) == [i \in 1..Len(d) |-> AnalyticsRow(d[i].key, d[i].val)]

\* Column labels of df_detailed, in insertion order (the degree sign of the
\* temperature label is left out of the string).
DetailedColumns ==
    <<"Cell ID", "Type", "Voltage (V)", "Min Voltage (V)", "Max Voltage (V)",
      "Current (A)", "Temperature (C)", "Capacity (Ah)">>

\* Decimal scale of each column's numbers (0 for the two text columns):
\* voltages and temperature in tenths, current and capacity in hundredths.
ColumnScale == <<0, 0, 10, 10, 10, 100, 10, 100>>

\* One row of df_detailed, values in column order.
DetailedRow(key, data) ==
    <<key, data.type, data.voltage, data.min_voltage, data.max_voltage,
      data.current, data.temp, data.capacity>>

DetailedTable(d) == [i \in 1..Len(d) |-> DetailedRow(d[i].key, d[i].val)]

\* Variant of FormatFloat that does not pad the fraction ("1.03" as "1.3").
FormatFloatNoPad(n, scale) ==
    LET f == n % scale
    IN  [ip   |-> n \div scale,
         frac |-> IF scale = 10 \/ f < 10 THEN <<f>>
                  ELSE IF f % 10 = 0 THEN <<f \div 10>>
                  ELSE <<f \div 10, f % 10>>]

\* Shortest decimal text of a float: integer part and fraction digits, at
\* least one fraction digit, no trailing zero ("3.2", "0.0", "1.03", "329.6").
FormatFloat(n, scale) ==
    LET f == n % scale
    IN  [ip   |-> n \div scale,
         frac |-> IF scale = 10 THEN <<f>>
                  ELSE IF f % 10 = 0 THEN <<f \div 10>>
                  ELSE <<f \div 10, f % 10>>]

\* One line of the CSV text: the text columns as they are, the float columns
\* as decimal text.
CsvLine(row) ==
    <<row[1], row[2],
      FormatFloat(row[3], ColumnScale[3]), FormatFloat(row[4], ColumnScale[4]),
      FormatFloat(row[5], ColumnScale[5]), FormatFloat(row[6], ColumnScale[6]),
      FormatFloat(row[7], ColumnScale[7]), FormatFloat(row[8], ColumnScale[8])>>

\* df_detailed.to_csv(index=False): header line, then one line per row.
ToCsv(table) ==
    [header |-> DetailedColumns,
     rows   |-> [i \in 1..Len(table) |-> CsvLine(table[i])]]

\* --------------------------------------------------------------- the state
VARIABLES
    num_cells,     \* value of the "Number of cells" selectbox
    type_select,   \* values of the "Cell #i type" selectboxes, i = 1..num_cells
    cell_types,    \* st.session_state.cell_types
    cells_data,    \* st.session_state.cells_data (the registry)
    widgets,       \* number_input states kept by the runtime: key, state, value
    keyIdentity,   \* how the runtime identifies a keyed number_input
    overview,      \* status cards rendered by tab 1 in the last pass
    analytics,     \* frame rendered by tab 3 in the last pass
    csv,           \* payload of the download button in the last pass
    exportOffered, \* whether the last pass rendered the download button
    prompt,        \* whether the last pass showed the "configure" prompt
    updateOffered, \* whether the last pass rendered "Update All Currents"
    lastOp         \* the interaction that triggered the last pass

vars == <<num_cells, type_select, cell_types, cells_data, widgets, keyIdentity,
          overview, analytics, csv, exportOffered, prompt, updateOffered, lastOp>>

\* ------------------------------------------------- objects and references
\* st.session_state.cells_data is a dict of dicts.  During a pass the inner
\* dicts live in a heap and the outer dicts hold references to them.
Alloc(d) ==
    [dict |-> [i \in 1..Len(d) |-> [key |-> d[i].key, ref |-> i]],
     heap |-> [i \in 1..Len(d) |-> d[i].val]]

Deref(dict, heap) ==
    [i \in 1..Len(dict) |-> [key |-> dict[i].key, val |-> heap[dict[i].ref]]]

\* dict.copy(): a new outer dict holding the same references.
DictCopy(dict) == [i \in 1..Len(dict) |-> dict[i]]

\* ------------------------------------------------------------ number_input
WidgetKey(cell_key) == "current_" \o cell_key

\* The value st.number_input returns for one cell in a pass.  An edit made
\* in the triggering interaction wins.  Otherwise the retained value is
\* returned if the runtime still sees the same widget: always when widgets
\* are identified by key alone, and only while the `value` argument is
\* unchanged when the arguments are part of the identity.  A widget the
\* runtime does not know starts at `value`.
NumberInput(cell_key, value, edits) ==
    LET k == WidgetKey(cell_key)
    IN  IF k \in DOMAIN edits THEN edits[k]
        ELSE IF \E i \in 1..Len(widgets) :
                    widgets[i].key = k /\ (keyIdentity \/ widgets[i].value = value)
             THEN LET i == CHOOSE j \in 1..Len(widgets) : widgets[j].key = k
                  IN  widgets[i].state
        ELSE value

\* Variant of UpdateRecord that also overwrites the temperature.
UpdateRecordTemp(cell_data, new_current) ==
    [cell_data EXCEPT !.current  = new_current,
                      !.temp     = new_current,
                      !.capacity = Capacity(cell_data.voltage, new_current)]

\* Body of the tab 2 loop for one cell: new_capacity, then the two stores
\* through updated_data[cell_key].
UpdateRecord(cell_data, new_current) ==
    [cell_data EXCEPT !.current  = new_current,
                      !.capacity = Capacity(cell_data.voltage, new_current)]

\* Variant of TabTwoLoop in which every cell receives the last input read.
TabTwoLoopLast(updated_data, heap, inputs) ==
    [r \in DOMAIN heap |-> UpdateRecord(heap[r], inputs[Len(inputs)])]

\* The tab 2 loop: every store goes through the reference held by
\* updated_data, into the heap.
TabTwoLoop(updated_data, heap, inputs) ==
    [r \in DOMAIN heap |->
        IF \E i \in 1..Len(updated_data) : updated_data[i].ref = r
        THEN LET i == CHOOSE j \in 1..Len(updated_data) : updated_data[j].ref = r
             IN  UpdateRecord(heap[r], inputs[i])
        ELSE heap[r]]

NoEdits == <<>>

\* Nothing is offered for download while the registry is empty.
NoCsv == [header |-> <<>>, rows |-> <<>>]

\* --------------------------------------------------------- one render pass
\* Sidebar: the lower-cased selector values, and the registry the main area
\* sees (rebuilt when "Generate Cell Data" was pressed).
LocalTypes(num, types) == [i \in 1..num |-> Lower(types[i])]

Sidebar(local_types, gen, samples) ==
    IF gen THEN GenerateCells(local_types, samples) ELSE cells_data

\* The values returned by the number inputs of tab 2, in registry order.
Inputs(cd1, edits) ==
    [i \in 1..Len(cd1) |-> NumberInput(cd1[i].key, cd1[i].val.current, edits)]

\* Tab 2: copy, loop, and the assignment under the Update button.  The
\* result is the session registry as the later tabs read it.
TabTwo(cd1, inputs, upd) ==
    LET obj          == Alloc(cd1)
        updated_data == DictCopy(obj.dict)
        heap2        == TabTwoLoop(updated_data, obj.heap, inputs)
        session      == IF upd THEN updated_data ELSE obj.dict
    IN  Deref(session, heap2)

\* What the runtime keeps for the number inputs rendered in this pass.
WidgetStates(cd1, inputs) ==
    [i \in 1..Len(cd1) |->
        [key |-> WidgetKey(cd1[i].key), state |-> inputs[i],
         value |-> cd1[i].val.current]]

\* Main content area: the four tabs when the registry is non-empty, the
\* prompt otherwise.  cd1 is the registry after the sidebar.
MainArea(cd1, inputs, upd) ==
    IF cd1 # <<>>
    THEN /\ overview' = Overview(cd1)
         /\ cells_data' = TabTwo(cd1, inputs, upd)
         /\ widgets' = WidgetStates(cd1, inputs)
         /\ analytics' = Analytics(cells_data')
         /\ csv' = ToCsv(DetailedTable(cells_data'))
         /\ exportOffered' = TRUE
         /\ prompt' = FALSE
         /\ updateOffered' = TRUE
    ELSE /\ overview' = <<>>
         /\ cells_data' = cd1
         /\ widgets' = <<>>
         /\ analytics' = <<>>
         /\ csv' = NoCsv
         /\ exportOffered' = FALSE
         /\ prompt' = TRUE
         /\ updateOffered' = FALSE

Script(op, num, types, gen, local_types, cd1, edits, upd) ==
    /\ num_cells' = num
    /\ type_select' = types
    /\ cell_types' = IF gen THEN local_types ELSE cell_types
    /\ lastOp' = op
    /\ keyIdentity' = keyIdentity
    /\ MainArea(cd1, Inputs(cd1, edits), upd)

\* The whole script for one interaction.  num and types are the selector
\* values, gen and upd tell which button was pressed, samples are the random
\* draws (used when gen), edits maps the widget keys edited to their values.
RenderPass(op, num, types, gen, samples, edits, upd) ==
    Script(op, num, types, gen, LocalTypes(num, types),
           Sidebar(LocalTypes(num, types), gen, samples), edits, upd)

NoSamples == <<>>

\* ------------------------------------------------------------------ actions
Init ==
    /\ num_cells = 1
    /\ type_select = <<Options[1]>>
    /\ cell_types = <<>>
    /\ cells_data = <<>>
    /\ widgets = <<>>
    /\ keyIdentity \in BOOLEAN
    /\ overview = <<>>
    /\ analytics = <<>>
    /\ csv = NoCsv
    /\ exportOffered = FALSE
    /\ prompt = TRUE
    /\ updateOffered = FALSE
    /\ lastOp = "start"

\* The operator picks another cell count.  Selectors that disappear lose
\* their state; new ones start at the first option.
SelectNumCells(n) ==
    /\ n # num_cells
    /\ RenderPass("select", n,
                  [i \in 1..n |-> IF i <= num_cells THEN type_select[i] ELSE Options[1]],
                  FALSE, NoSamples, NoEdits, FALSE)

\* The operator picks another chemistry for cell i.
SelectCellType(i, c) ==
    /\ c # type_select[i]
    /\ RenderPass("select", num_cells, [type_select EXCEPT ![i] = c],
                  FALSE, NoSamples, NoEdits, FALSE)

\* "Generate Cell Data" is pressed.
GenerateCellData(samples) ==
    RenderPass("generate", num_cells, type_select, TRUE, samples, NoEdits, FALSE)

\* The operator commits a new value in one current input.
EditCurrent(w, v) ==
    /\ v # widgets[w].state
    /\ RenderPass("edit", num_cells, type_select, FALSE, NoSamples,
                  widgets[w].key :> v, FALSE)

\* "Update All Currents" is pressed.
UpdateAllCurrents ==
    /\ updateOffered
    /\ RenderPass("update", num_cells, type_select, FALSE, NoSamples, NoEdits, TRUE)

\* A value is committed and "Update All Currents" pressed before the runtime
\* starts the pass for the edit: one pass sees both.
EditAndUpdate(w, v) ==
    /\ updateOffered
    /\ v # widgets[w].state
    /\ RenderPass("update", num_cells, type_select, FALSE, NoSamples,
                  widgets[w].key :> v, TRUE)

Next ==
    \/ \E n \in 1..MaxCells : SelectNumCells(n)
    \/ \E i \in 1..num_cells, c \in {Options[1], Options[2]} : SelectCellType(i, c)
    \/ \E samples \in [1..num_cells -> TempSamples] : GenerateCellData(samples)
    \/ \E w \in 1..Len(widgets), v \in CurrentInputs : EditCurrent(w, v)
    \/ UpdateAllCurrents
    \/ \E w \in 1..Len(widgets), v \in CurrentInputs : EditAndUpdate(w, v)

Spec == Init /\ [][Next]_vars

TypeOK ==
    /\ num_cells \in 1..MaxCells
    /\ Len(type_select) = num_cells
    /\ \A i \in 1..Len(cells_data) :
          /\ cells_data[i].val.current \in MinCurrent..MaxCurrent
          /\ cells_data[i].val.type \in {"LFP", "NMC"}

\* ================================================================== claims
MaxCellCount == 16

MinTemp == 250

MaxTemp == 400

ExpectedId(i, c) == "cell_" \o ToString(i) \o "_" \o c

CurCap(d) ==
    [i \in 1..Len(d) |-> <<d[i].key, d[i].val.current, d[i].val.capacity>>]

Immutable(d) ==
    [i \in 1..Len(d) |-> <<d[i].key, d[i].val.temp, d[i].val.voltage,
                           d[i].val.min_voltage, d[i].val.max_voltage, d[i].val.type>>]

\* capacity (hundredths) is the hundredth nearest to voltage * current.
IsRounded(capacity, voltage, current) ==
    /\ 10 * capacity - voltage * current <= 5
    /\ voltage * current - 10 * capacity <= 5

NominalOf(type) == IF type = "LFP" THEN 32 ELSE 36

\* The value a current input held in the last pass.
InputOf(w, d, i) ==
    LET j == CHOOSE n \in 1..Len(w) : w[n].key = "current_" \o d[i].key
    IN  w[j].state

\* The number a decimal text of the export denotes, at a given scale.
ParseFloat(t, scale) ==
    t.ip * scale +
    (IF Len(t.frac) = 1 THEN t.frac[1] * (scale \div 10)
     ELSE (t.frac[1] * 10 + t.frac[2]) * (scale \div 100))

\* C1: in a pass where neither Update nor Generate is pressed, every cell's
\* current and capacity in the registry are the same at the end of the pass
\* as at its start.
C1_StagedUntilConfirmed ==
    [][lastOp' \notin {"update", "generate"} => CurCap(cells_data') = CurCap(cells_data)]_vars

\* C2: the registry is empty, or its ids are exactly cell_1_c1 .. cell_N_cN
\* for the configuration confirmed by the last Generate, 1 <= N <= 16,
\* pairwise distinct and in configuration order.
C2_RegistryIds ==
    \/ cells_data = <<>> /\ cell_types = <<>>
    \/ /\ Len(cell_types) \in 1..MaxCellCount
       /\ Len(cells_data) = Len(cell_types)
       /\ \A i \in 1..Len(cells_data) :
             cells_data[i].key = ExpectedId(i, cell_types[i])
       /\ \A i, j \in 1..Len(cells_data) :
             i # j => cells_data[i].key # cells_data[j].key

C2_Witness ==
    /\ Len(cells_data) = 2
    /\ num_cells = 1
    /\ lastOp = "select"
    /\ type_select[1] # Upper(cell_types[1])

\* C3: every record of the registry has capacity = round(voltage * current, 2)
\* with voltage the nominal voltage of its chemistry and current within
\* [0.0, 100.0]; the same holds of what the cards and the analytics show.
C3_CapacityDerived ==
    /\ \A i \in 1..Len(cells_data) :
          LET r == cells_data[i].val
          IN  /\ r.voltage = NominalOf(r.type)
              /\ r.current \in MinCurrent..MaxCurrent
              /\ IsRounded(r.capacity, r.voltage, r.current)
    /\ \A i \in 1..Len(overview) :
          IsRounded(overview[i].capacity, overview[i].voltage, overview[i].current)
    /\ \A i \in 1..Len(analytics) :
          IsRounded(analytics[i].Capacity, analytics[i].Voltage, analytics[i].Current)

C3_Witness ==
    \E i \in 1..Len(cells_data) :
        /\ cells_data[i].val.current = 103
        /\ cells_data[i].val.capacity = 330
        /\ lastOp = "update"

\* C4: when Update is confirmed with the input of cell X holding V and every
\* other input holding its cell's stored current, X ends with current V and
\* capacity round(voltage_X * V, 2) and every other cell's current and
\* capacity are unchanged; with no edit at all the registry is unchanged.
C4_UpdateTouchesOnlyEdited ==
    [][lastOp' = "update" =>
         /\ Keys(cells_data') = Keys(cells_data)
         /\ \A x \in 1..Len(cells_data) :
               (\A o \in 1..Len(cells_data) :
                    o # x => InputOf(widgets', cells_data, o) = cells_data[o].val.current)
               => /\ cells_data'[x].val.current = InputOf(widgets', cells_data, x)
                  /\ IsRounded(cells_data'[x].val.capacity, cells_data[x].val.voltage,
                               InputOf(widgets', cells_data, x))
                  /\ \A o \in 1..Len(cells_data) :
                        o # x => CurCap(cells_data')[o] = CurCap(cells_data)[o]
         /\ (\A o \in 1..Len(cells_data) :
                 InputOf(widgets', cells_data, o) = cells_data[o].val.current)
            => cells_data' = cells_data]_vars

C4_Witness ==
    /\ lastOp = "update"
    /\ Len(cells_data) >= 2
    /\ \E x \in 1..Len(widgets) :
          /\ widgets[x].state # widgets[x].value
          /\ \A o \in 1..Len(widgets) : o # x =>
                /\ widgets[o].state = widgets[o].value
                /\ widgets[o].state # 0

\* C5: at the end of a pass in which Generate is pressed the registry holds
\* only the ids of the new configuration and every record has current 0.0
\* and capacity 0.0, whatever the previous registry and inputs held.
C5_RegenerateResets ==
    lastOp = "generate" =>
        /\ Len(cells_data) = num_cells
        /\ \A i \in 1..Len(cells_data) :
              /\ cells_data[i].key = ExpectedId(i, Lower(type_select[i]))
              /\ cells_data[i].val.current = 0
              /\ cells_data[i].val.capacity = 0

\* C6: for every cell the voltage ratio is 0.5 and the status shown is "OK".
C6_RatioHalfStatusOK ==
    \A i \in 1..Len(overview) :
        /\ VoltageRatioCmpHalf(cells_data[i].val) = 0
        /\ overview[i].status = "OK"

\* C6 (amended): the status is a function of the chemistry only and never
\* "Good": an LFP cell's ratio is above 0.5 and it shows "OK", an NMC cell's
\* ratio is 0.5 and it shows "Low".
C6_StatusByChemistry ==
    \A i \in 1..Len(overview) :
        /\ overview[i].status # "Good"
        /\ cells_data[i].val.type = "LFP" =>
              /\ VoltageRatioCmpHalf(cells_data[i].val) = 1
              /\ overview[i].status = "OK"
        /\ cells_data[i].val.type = "NMC" =>
              /\ VoltageRatioCmpHalf(cells_data[i].val) = 0
              /\ overview[i].status = "Low"

C6_Witness ==
    /\ \E i \in 1..Len(overview) : overview[i].status = "OK"
    /\ \E i \in 1..Len(overview) : overview[i].status = "Low"

\* C7: the app starts Unconfigured (registry empty, prompt shown, neither
\* Update nor export offered); Generate makes the registry non-empty; a
\* non-empty registry never becomes empty again, and only Generate leaves
\* Unconfigured.
C7_TwoStateMachine ==
    [][/\ lastOp = "start" => cells_data = <<>>
       /\ cells_data = <<>> => (prompt /\ ~updateOffered /\ ~exportOffered)
       /\ cells_data # <<>> => cells_data' # <<>>
       /\ lastOp' = "generate" => cells_data' # <<>>
       /\ (cells_data = <<>> /\ lastOp' # "generate") => cells_data' = <<>>
       /\ cells_data' = <<>> => (prompt' /\ ~updateOffered' /\ ~exportOffered')
       /\ cells_data' # <<>> => (~prompt' /\ updateOffered' /\ exportOffered')]_vars

C7_Witness ==
    /\ cells_data # <<>>
    /\ lastOp = "update"
    /\ ~prompt

\* C8: every temperature lies in [25.0, 40.0] (tenths of a degree), and a
\* pass without Generate changes no record's temperature, voltage,
\* min_voltage, max_voltage or type.
C8_TemperatureFixed ==
    [][/\ \A i \in 1..Len(cells_data') :
             cells_data'[i].val.temp \in MinTemp..MaxTemp
       /\ lastOp' # "generate" => Immutable(cells_data') = Immutable(cells_data)]_vars

C8_Witness ==
    /\ lastOp \in {"edit", "update"}
    /\ \E i \in 1..Len(cells_data) :
          /\ cells_data[i].val.temp = 400
          /\ cells_data[i].val.current # 0

\* C9: the export has the eight columns in the fixed order and one row per
\* registry entry, in registry order, whose values are the fields of that
\* entry's record in the session registry.
C9_CsvMatchesRegistry ==
    exportOffered =>
        /\ csv.header = <<"Cell ID", "Type", "Voltage (V)", "Min Voltage (V)",
                          "Max Voltage (V)", "Current (A)", "Temperature (C)",
                          "Capacity (Ah)">>
        /\ Len(csv.rows) = Len(cells_data)
        /\ \A i \in 1..Len(cells_data) :
              LET row == csv.rows[i]
                  r   == cells_data[i].val
              IN  /\ Len(row) = 8
                  /\ row[1] = cells_data[i].key
                  /\ row[2] = r.type
                  /\ ParseFloat(row[3], 10) = r.voltage
                  /\ ParseFloat(row[4], 10) = r.min_voltage
                  /\ ParseFloat(row[5], 10) = r.max_voltage
                  /\ ParseFloat(row[6], 100) = r.current
                  /\ ParseFloat(row[7], 10) = r.temp
                  /\ ParseFloat(row[8], 100) = r.capacity

C9_Witness ==
    /\ exportOffered
    /\ lastOp = "edit"
    /\ Len(cells_data) = 2
    /\ cells_data[2].val.current = 103
    /\ csv.rows[2][6] = [ip |-> 1, frac |-> <<0, 3>>]

\* C10: in one pass the current and capacity on a cell's status card equal
\* those in the analytics frame and in the export of the same pass.
C10_ViewsAgree ==
    \A i \in 1..Len(overview) :
        /\ overview[i].current = analytics[i].Current
        /\ overview[i].capacity = analytics[i].Capacity
        /\ overview[i].current = ParseFloat(csv.rows[i][6], 100)
        /\ overview[i].capacity = ParseFloat(csv.rows[i][8], 100)

====
